---- MODULE Spec2Model ----
(***************************************************************************)
(* A model of process.js: the conversion of a yosys netlist (output.json)  *)
(* into simcir device diagrams and the emission of the HTML document.      *)
(*                                                                         *)
(* The script is one synchronous run: order_ports, yosys_to_simcir (one    *)
(* loop iteration per module), layout_circuits, topsort(module_deps) and   *)
(* the console.log sequence.  The netlist is the input; it is fixed in the *)
(* initial state and never changes.                                        *)
(*                                                                         *)
(* Representation.                                                         *)
(*  - data.modules is a sequence of modules in key (insertion) order.      *)
(*  - a cell's port_directions and connections maps are one sequence       *)
(*    `conns` of [name, direction, bits] in port_directions key order      *)
(*    (connections[pname] is present for every key, as yosys writes it).   *)
(*  - 'dev' + n is the integer n; "in" + k is [kind |-> "in", k |-> k];    *)
(*    d + '.' + p is [dev |-> d, slot |-> p]; p = undefined gives the      *)
(*    slot UndefSlot ('devN.undefined').                                   *)
(*  - the x, y, width, height numbers that dagre computes are left out;    *)
(*    layout_circuit is modelled by the one thing it can do to the run:    *)
(*    conn.to.split('.') throws when conn.to is undefined.                 *)
(*  - topsort is the npm package of that name; its code is not part of     *)
(*    the repository and it is modelled by its contract.                   *)
(*                                                                         *)
(* Exceptions.  err names the exception that ended the run:                *)
(*    "MultipleDrivers"       assert(net.source === undefined), line 79    *)
(*    "InvalidPortWidth"      assert(port.bits.length == 1), line 104      *)
(*    "InvalidPortDirection"  throw Error(...), lines 49, 114, 162         *)
(*    "AssertionError"        the asserts on a gate cell, lines 138-143    *)
(*    "TypeError"             a property read of undefined, lines 138-140, *)
(*                            156, 159, 194                                *)
(*    "CyclicDependency"      the exception of topsort, line 222           *)
(*                                                                         *)
(* Lines 238-286 of process.js are a second script, the command line front *)
(* end around index.js; it is not modelled.                                *)
(***************************************************************************)
EXTENDS Integers, Sequences, FiniteSets, TLC

VARIABLES
    data,       \* obj: the parsed netlist, a sequence of modules
    pc,         \* position of the script
    portmaps,   \* result of order_ports: type name -> (port name -> slot)
    mi,         \* index of the next module yosys_to_simcir converts
    nets,       \* net table of the module converted last
    out,        \* module name -> diagram [devices, connectors]
    toporder,   \* topsort result, after the pop
    toplevel,   \* the popped element
    ri,         \* index of the next element of toporder to register
    doc,        \* what console.log has written so far
    err,        \* kind of the exception that ended the run, or "none"
    errat       \* [module, cell, type] being processed when it was thrown

vars == <<data, pc, portmaps, mi, nets, out, toporder, toplevel, ri, doc, err, errat>>

-----------------------------------------------------------------------------
(* Bounds of the input families *)

MaxPorts == 2
MaxNet == 2
MaxOrderPorts == 3
MaxMods == 3

-----------------------------------------------------------------------------
(* Values *)

EmptyFn == [x \in {} |-> 0]

SlotIn(k) == [kind |-> "in", k |-> k]
SlotOut(k) == [kind |-> "out", k |-> k]
UndefSlot == [kind |-> "undefined", k |-> 0]
Endpoint(d, p) == [dev |-> d, slot |-> p]
\* net.source === undefined
NoEndpoint == [dev |-> -1, slot |-> [kind |-> "none", k |-> 0]]
\* toporder.pop() of an empty array
NoName == "undefined"
NoWhere == [module |-> "", cell |-> "", type |-> ""]

GateTypes == {"$and", "$or", "$xor"}

ModuleNames(d) == {d[i].name : i \in DOMAIN d}
ModuleNamed(d, nm) == d[CHOOSE i \in DOMAIN d : d[i].name = nm]

-----------------------------------------------------------------------------
(* module_deps *)

RECURSIVE cell_deps(_, _, _)
cell_deps(d, mod, j) ==
    IF j > Len(mod.cells) THEN <<>>
    ELSE (IF mod.cells[j].type \in ModuleNames(d)
          THEN << <<mod.cells[j].type, mod.name>> >>
          ELSE <<>>) \o cell_deps(d, mod, j + 1)

RECURSIVE deps_from(_, _)
deps_from(d, i) ==
    IF i > Len(d) THEN <<>>
    ELSE cell_deps(d, d[i], 1) \o deps_from(d, i + 1)

\* faulty variant: the edge pushed as [name, cell.type]
module_deps_reversed(d) ==
    LET e == deps_from(d, 1) IN [i \in 1..Len(e) |-> <<e[i][2], e[i][1]>>]

\* faulty variant: a cell whose type is its own module pushes no edge
module_deps_skipself(d) == SelectSeq(deps_from(d, 1), LAMBDA e : e[1] # e[2])

module_deps(d) == deps_from(d, 1)

-----------------------------------------------------------------------------
(* order_ports *)

binmap == ("A" :> SlotIn(0)) @@ ("B" :> SlotIn(1)) @@ ("Y" :> SlotOut(0))

\* faulty variant: descending order
comp_reversed(a, b) == b.num - a.num

comp(a, b) == a.num - b.num

\* Array.prototype.sort(comp): a stable sort
RECURSIVE sort_insert(_, _)
sort_insert(x, s) ==
    IF s = <<>> THEN <<x>>
    ELSE IF comp(x, Head(s)) < 0 THEN <<x>> \o s
    ELSE <<Head(s)>> \o sort_insert(x, Tail(s))

RECURSIVE sort(_)
sort(s) ==
    IF s = <<>> THEN <<>>
    ELSE sort_insert(s[Len(s)], sort(SubSeq(s, 1, Len(s) - 1)))

pdata_of(ports, dir) ==
    LET sel == SelectSeq(ports, LAMBDA p : p.direction = dir)
    IN  [i \in 1..Len(sel) |-> [name |-> sel[i].name, num |-> sel[i].bits[1]]]

module_portmap(mod) ==
    LET ins == sort(pdata_of(mod.ports, "input"))
        outs == sort(pdata_of(mod.ports, "output"))
    IN  [nm \in {mod.ports[i].name : i \in DOMAIN mod.ports} |->
            IF \E k \in DOMAIN ins : ins[k].name = nm
            THEN SlotIn((CHOOSE k \in DOMAIN ins : ins[k].name = nm) - 1)
            ELSE SlotOut((CHOOSE k \in DOMAIN outs : outs[k].name = nm) - 1)]

invalid_direction(d) ==
    \E i \in DOMAIN d : \E j \in DOMAIN d[i].ports :
        d[i].ports[j].direction \notin {"input", "output"}

order_ports(d) ==
    [t \in GateTypes \cup ModuleNames(d) |->
        IF t \in ModuleNames(d) THEN module_portmap(ModuleNamed(d, t)) ELSE binmap]

-----------------------------------------------------------------------------
(* yosys_to_simcir: the state of one module's conversion is                *)
(* [n, nets, devices, connectors, err, at]; a thrown exception is err #    *)
(* "none", after which nothing more of the module is executed.             *)

fail(st, kind) == [st EXCEPT !.err = kind]

get_net(nts, k) ==
    IF k \in DOMAIN nts THEN nts
    ELSE nts @@ (k :> [source |-> NoEndpoint, targets |-> <<>>])

\* faulty variant: no assert, the later driver overwrites the earlier
add_net_source_overwrite(st, k, d, p) ==
    IF st.err # "none" THEN st
    ELSE [st EXCEPT !.nets = [get_net(st.nets, k) EXCEPT ![k].source = Endpoint(d, p)]]

\* assert(net.source === undefined) is the MultipleDrivers error
add_net_source(st, k, d, p) ==
    LET nts == get_net(st.nets, k)
    IN  IF st.err # "none" THEN st
        ELSE IF nts[k].source # NoEndpoint
        THEN fail([st EXCEPT !.nets = nts], "MultipleDrivers")
        ELSE [st EXCEPT !.nets = [nts EXCEPT ![k].source = Endpoint(d, p)]]

add_net_target(st, k, d, p) ==
    LET nts == get_net(st.nets, k)
    IN  IF st.err # "none" THEN st
        ELSE [st EXCEPT !.nets = [nts EXCEPT ![k].targets = Append(@, Endpoint(d, p))]]

push_device(st, dev) ==
    IF st.err # "none" THEN st ELSE [st EXCEPT !.devices = Append(@, dev)]

\* lines 94-117, one iteration; a device without an order field has order 0
register_port(st, mname, port) ==
    LET dname == st.n
        s1 == [st EXCEPT !.n = @ + 1,
                         !.at = [module |-> mname, cell |-> "", type |-> ""]]
        dev(ty) == [id |-> dname, label |-> port.name, order |-> s1.n, type |-> ty]
    IN  IF st.err # "none" THEN st
        ELSE IF Len(port.bits) # 1 THEN fail(s1, "InvalidPortWidth")
        ELSE IF port.direction = "input"
        THEN push_device(add_net_source(s1, port.bits[1], dname, SlotOut(0)), dev("In"))
        ELSE IF port.direction = "output"
        THEN push_device(add_net_target(s1, port.bits[1], dname, SlotIn(0)), dev("Out"))
        ELSE fail(s1, "InvalidPortDirection")

device_type(ty) ==
    CASE ty = "$and" -> "AND"
      [] ty = "$or" -> "OR"
      [] ty = "$xor" -> "XOR"
      [] OTHER -> ty

has_conn(cell, nm) == \E i \in DOMAIN cell.conns : cell.conns[i].name = nm
conn_named(cell, nm) == cell.conns[CHOOSE i \in DOMAIN cell.conns : cell.conns[i].name = nm]

\* assert(cell.connections.X.length == 1)
assert_length(st, cell, nm) ==
    IF st.err # "none" THEN st
    ELSE IF ~has_conn(cell, nm) THEN fail(st, "TypeError")
    ELSE IF Len(conn_named(cell, nm).bits) # 1 THEN fail(st, "AssertionError")
    ELSE st

\* assert(cell.port_directions.X == dir)
assert_direction(st, cell, nm, dir) ==
    IF st.err # "none" THEN st
    ELSE IF conn_named(cell, nm).direction # dir THEN fail(st, "AssertionError")
    ELSE st

\* lines 136-150
gate_asserts(st, cell) ==
    IF cell.type \notin GateTypes THEN st
    ELSE assert_direction(assert_direction(assert_direction(
            assert_length(assert_length(assert_length(st, cell, "A"), cell, "B"), cell, "Y"),
            cell, "A", "input"), cell, "B", "input"), cell, "Y", "output")

\* portmap[pname]; a name the mapping lacks gives undefined
slot_of(portmap, pname) ==
    IF pname \in DOMAIN portmap THEN portmap[pname] ELSE UndefSlot

\* lines 151-164; portmap = portmaps[cell.type] is undefined for a type that
\* is neither a gate nor a module, and portmap[pname] then throws a TypeError
RECURSIVE connect(_, _, _, _, _)
connect(st, cell, dname, pms, i) ==
    IF st.err # "none" \/ i > Len(cell.conns) THEN st
    ELSE LET c == cell.conns[i]
         IN  IF c.direction \notin {"input", "output"}
             THEN fail(st, "InvalidPortDirection")
             ELSE IF cell.type \notin DOMAIN pms
             THEN fail(st, "TypeError")
             ELSE LET p == slot_of(pms[cell.type], c.name)
                      s == IF c.direction = "input"
                           THEN add_net_target(st, c.bits[1], dname, p)
                           ELSE add_net_source(st, c.bits[1], dname, p)
                  IN  connect(s, cell, dname, pms, i + 1)

\* lines 118-166, one iteration
register_cell(st, mname, cell, pms) ==
    LET dname == st.n
        s1 == [st EXCEPT !.n = @ + 1,
                         !.at = [module |-> mname, cell |-> cell.name, type |-> cell.type]]
        dev == [id |-> dname, label |-> cell.name, order |-> 0,
                type |-> device_type(cell.type)]
    IN  IF st.err # "none" THEN st
        ELSE push_device(connect(gate_asserts(s1, cell), cell, dname, pms, 1), dev)

RECURSIVE register_ports(_, _, _)
register_ports(st, mod, i) ==
    IF i > Len(mod.ports) THEN st
    ELSE register_ports(register_port(st, mod.name, mod.ports[i]), mod, i + 1)

RECURSIVE register_cells(_, _, _, _)
register_cells(st, mod, pms, j) ==
    IF j > Len(mod.cells) THEN st
    ELSE register_cells(register_cell(st, mod.name, mod.cells[j], pms), mod, pms, j + 1)

\* faulty variant: one connector per net, for its first listener
net_connectors_first(net, i) ==
    IF net.targets = <<>> THEN <<>>
    ELSE <<[from |-> net.targets[1], to |-> net.source]>>

RECURSIVE net_connectors(_, _)
net_connectors(net, i) ==
    IF i > Len(net.targets) THEN <<>>
    ELSE <<[from |-> net.targets[i], to |-> net.source]>> \o net_connectors(net, i + 1)

\* lines 167-171; for (nnum in nets) visits integer keys in ascending order
RECURSIVE emit_connectors(_, _)
emit_connectors(nts, keys) ==
    IF keys = {} THEN <<>>
    ELSE LET k == CHOOSE x \in keys : \A y \in keys : x <= y
         IN  net_connectors(nts[k], 1) \o emit_connectors(nts, keys \ {k})

\* lines 66-172, one iteration of the loop over data.modules
convert_module(mod, pms) ==
    LET s0 == [n |-> 0, nets |-> EmptyFn, devices |-> <<>>, connectors |-> <<>>,
               err |-> "none", at |-> NoWhere]
        s2 == register_cells(register_ports(s0, mod, 1), mod, pms, 1)
    IN  IF s2.err # "none" THEN s2
        ELSE [s2 EXCEPT !.connectors = emit_connectors(s2.nets, DOMAIN s2.nets)]

-----------------------------------------------------------------------------
(* topsort(edges), the npm dependency: a topological order of the nodes    *)
(* that occur in the edges, any one of them; it throws when there is none. *)

edge_set(edges) == {edges[i] : i \in DOMAIN edges}
edge_nodes(edges) == {edges[i][1] : i \in DOMAIN edges} \cup {edges[i][2] : i \in DOMAIN edges}

RECURSIVE linear_orders(_, _)
linear_orders(nodes, es) ==
    IF nodes = {} THEN {<<>>}
    ELSE UNION {{<<m>> \o s : s \in linear_orders(nodes \ {m}, es)} :
                m \in {x \in nodes : \A e \in es : ~(e[2] = x /\ e[1] \in nodes)}}

topsort(edges) == linear_orders(edge_nodes(edges), edge_set(edges))

-----------------------------------------------------------------------------
(* The netlists the run is started on *)

Directions == {"input", "output"}
PName == <<"A", "B", "Y", "C", "D", "E">>
MName == <<"X", "Y", "Z", "W", "V">>
UName == <<"ux", "uy", "uz", "uw", "uv">>

Port(nm, dir, bit) == [name |-> nm, direction |-> dir, bits |-> <<bit>>]
Conn(nm, dir, bit) == [name |-> nm, direction |-> dir, bits |-> <<bit>>]

\* the i-th port is named PName[i] and f[i] = <<direction, bit>>
MkPorts(f) == [i \in DOMAIN f |-> Port(PName[i], f[i][1], f[i][2])]
PortChoices(maxlen, dirs, bitset) == UNION {[1..n -> dirs \X bitset] : n \in 0..maxlen}

\* one module, no cells, ports of pairwise distinct bit indices
OrderChoices ==
    {g \in PortChoices(MaxOrderPorts, Directions \cup {"inout"}, 1..MaxOrderPorts) :
        \A i, j \in DOMAIN g : i # j => g[i][2] # g[j][2]}
OrderNetlist(f) == <<[name |-> "top", ports |-> MkPorts(f), cells |-> <<>>]>>

\* a connection per name of `names` whose choice is not <<"none", 0>>
ConnChoice == {<<"none", 0>>} \cup (Directions \X (1..MaxNet))
MkConns(names, f) ==
    LET sel == SelectSeq([i \in 1..Len(names) |-> [name |-> names[i], c |-> f[i]]],
                         LAMBDA r : r.c[1] # "none")
    IN  [i \in 1..Len(sel) |-> Conn(sel[i].name, sel[i].c[1], sel[i].c[2])]

\* a gate wired on A, B, Y, with or without a fourth port C
GateCell(a, b, y, f) ==
    [name |-> "c1", type |-> "$and",
     conns |-> <<Conn("A", "input", a), Conn("B", "input", b), Conn("Y", "output", y)>>
               \o MkConns(<<"C">>, f)]

\* an instance of the module sub (ports A, Y), with or without a third port C
SubCell(f) == [name |-> "c1", type |-> "sub", conns |-> MkConns(<<"A", "Y", "C">>, f)]

\* a cell of a type the netlist does not define
UnknownCell(f) == [name |-> "c1", type |-> "blackbox", conns |-> MkConns(<<"A", "Y">>, f)]

SubModule ==
    [name |-> "sub", ports |-> <<Port("A", "input", 1), Port("Y", "output", 1)>>,
     cells |-> <<>>]

\* up to MaxPorts ports on the nets 1..MaxNet, in ascending order of their nets
ConvPortChoices ==
    {g \in PortChoices(MaxPorts, Directions, 1..MaxNet) :
        \A i, j \in DOMAIN g : i < j => g[i][2] <= g[j][2]}

\* a wire-through library module and a module of up to MaxPorts ports and one cell
ConvNetlist(f, cs) == <<SubModule, [name |-> "top", ports |-> MkPorts(f), cells |-> cs]>>

\* one instance of MName[j] for every j of S
Insts(S) ==
    LET sel == SelectSeq([j \in 1..MaxMods |-> j], LAMBDA j : j \in S)
    IN  [i \in 1..Len(sel) |-> [name |-> UName[sel[i]], type |-> MName[sel[i]], conns |-> <<>>]]

\* k port-less modules, module i instantiating the modules of g[i]
HierNetlist(k, g) ==
    [i \in 1..k |-> [name |-> MName[i], ports |-> <<>>, cells |-> Insts(g[i])]]

\* one AND cell wired to the input ports A, B and the output port Y
AndExample ==
    <<[name |-> "top",
       ports |-> <<Port("A", "input", 1), Port("B", "input", 2), Port("Y", "output", 3)>>,
       cells |-> <<[name |-> "g", type |-> "$and",
                    conns |-> <<Conn("A", "input", 1), Conn("B", "input", 2),
                                Conn("Y", "output", 3)>>]>>]>>

\* a port two bits wide
WidePortExample ==
    <<[name |-> "top",
       ports |-> <<[name |-> "A", direction |-> "input", bits |-> <<1, 2>>]>>,
       cells |-> <<>>]>>

\* gate cells the asserts of lines 138-143 reject: no B, Y an input, A two bits wide
BadGateExamples ==
    {<<[name |-> "top", ports |-> <<>>,
        cells |-> <<[name |-> "g", type |-> t, conns |-> cs]>>]>> :
        t \in {"$or", "$xor"},
        cs \in {<<Conn("A", "input", 1), Conn("Y", "output", 2)>>,
                <<Conn("A", "input", 1), Conn("B", "input", 1), Conn("Y", "input", 2)>>,
                <<[name |-> "A", direction |-> "input", bits |-> <<1, 2>>],
                  Conn("B", "input", 1), Conn("Y", "output", 2)>>,
                <<Conn("A", "input", 1), Conn("B", "input", 1), Conn("Y", "output", 2)>>}}

InitData ==
    \/ \E f \in OrderChoices : data = OrderNetlist(f)
    \/ \E f \in ConvPortChoices :
          \/ data = ConvNetlist(f, <<>>)
          \/ \E a, b, y \in 1..MaxNet, c \in [1..1 -> ConnChoice] :
                data = ConvNetlist(f, <<GateCell(a, b, y, c)>>)
          \/ \E c \in [1..3 -> ConnChoice] : data = ConvNetlist(f, <<SubCell(c)>>)
          \/ \E c \in [1..2 -> ConnChoice] : data = ConvNetlist(f, <<UnknownCell(c)>>)
    \/ \E k \in 1..MaxMods : \E g \in [1..k -> SUBSET (1..MaxMods)] :
          data = HierNetlist(k, g)
    \/ data = AndExample
    \/ data = WidePortExample
    \/ data \in BadGateExamples

-----------------------------------------------------------------------------
(* The script, lines 218-235 *)

Init ==
    /\ InitData
    /\ pc = "order_ports"
    /\ portmaps = EmptyFn
    /\ mi = 1
    /\ nets = EmptyFn
    /\ out = EmptyFn
    /\ toporder = <<>>
    /\ toplevel = NoName
    /\ ri = 1
    /\ doc = <<>>
    /\ err = "none"
    /\ errat = NoWhere

Throw(kind, at) ==
    /\ pc' = "failed"
    /\ err' = kind
    /\ errat' = at

\* line 219
OrderPorts ==
    /\ pc = "order_ports"
    /\ IF invalid_direction(data)
       THEN Throw("InvalidPortDirection", NoWhere) /\ UNCHANGED portmaps
       ELSE /\ portmaps' = order_ports(data)
            /\ pc' = IF Len(data) = 0 THEN "layout" ELSE "convert"
            /\ UNCHANGED <<err, errat>>
    /\ UNCHANGED <<data, mi, nets, out, toporder, toplevel, ri, doc>>

\* line 220, one iteration of the loop of yosys_to_simcir
ConvertModule ==
    /\ pc = "convert"
    /\ mi <= Len(data)
    /\ LET st == convert_module(data[mi], portmaps)
       IN  /\ nets' = st.nets
           /\ IF st.err # "none"
              THEN Throw(st.err, st.at) /\ UNCHANGED <<mi, out>>
              ELSE /\ out' = (data[mi].name :>
                                [devices |-> st.devices, connectors |-> st.connectors]) @@ out
                   /\ mi' = mi + 1
                   /\ pc' = IF mi = Len(data) THEN "layout" ELSE "convert"
                   /\ UNCHANGED <<err, errat>>
    /\ UNCHANGED <<data, portmaps, toporder, toplevel, ri, doc>>

\* conn.to.split('.') of layout_circuit, line 194
layout_throws(circs) ==
    \E nm \in DOMAIN circs : \E i \in DOMAIN circs[nm].connectors :
        circs[nm].connectors[i].to = NoEndpoint

\* line 221
LayoutCircuits ==
    /\ pc = "layout"
    /\ IF layout_throws(out)
       THEN Throw("TypeError", NoWhere)
       ELSE pc' = "topsort" /\ UNCHANGED <<err, errat>>
    /\ UNCHANGED <<data, portmaps, mi, nets, out, toporder, toplevel, ri, doc>>

\* lines 222-223
EmissionOrder ==
    /\ pc = "topsort"
    /\ LET orders == topsort(module_deps(data))
       IN  IF orders = {}
           THEN Throw("CyclicDependency", NoWhere) /\ UNCHANGED <<toporder, toplevel>>
           ELSE /\ \E o \in orders :
                     /\ toporder' = IF o = <<>> THEN <<>> ELSE SubSeq(o, 1, Len(o) - 1)
                     /\ toplevel' = IF o = <<>> THEN NoName ELSE o[Len(o)]
                /\ pc' = "header"
                /\ UNCHANGED <<err, errat>>
    /\ UNCHANGED <<data, portmaps, mi, nets, out, ri, doc>>

\* JSON.stringify(out[x]): the record names x; the diagram written is out[x]
Written(kind, x) == [kind |-> kind, name |-> x, defined |-> x \in DOMAIN out]

\* lines 224-225
EmitHeader ==
    /\ pc = "header"
    /\ doc' = Append(doc, [kind |-> "header", name |-> "", defined |-> TRUE])
    /\ pc' = "register"
    /\ UNCHANGED <<data, portmaps, mi, nets, out, toporder, toplevel, ri, err, errat>>

\* lines 226-230, one iteration
EmitRegister ==
    /\ pc = "register"
    /\ ri <= Len(toporder)
    /\ doc' = Append(doc, Written("register", toporder[ri]))
    /\ ri' = ri + 1
    /\ UNCHANGED <<data, pc, portmaps, mi, nets, out, toporder, toplevel, err, errat>>

\* lines 231-235
EmitRoot ==
    /\ pc = "register"
    /\ ri > Len(toporder)
    /\ doc' = Append(doc, Written("toplevel", toplevel))
    /\ pc' = "done"
    /\ UNCHANGED <<data, portmaps, mi, nets, out, toporder, toplevel, ri, err, errat>>

Next ==
    \/ OrderPorts
    \/ ConvertModule
    \/ LayoutCircuits
    \/ EmissionOrder
    \/ EmitHeader
    \/ EmitRegister
    \/ EmitRoot

Spec == Init /\ [][Next]_vars

-----------------------------------------------------------------------------
(* What the netlist says, read off the input alone *)

\* the modules that module nm instantiates
Uses(d, nm) ==
    LET mod == ModuleNamed(d, nm)
    IN  {mod.cells[j].type : j \in DOMAIN mod.cells} \cap ModuleNames(d)

RECURSIVE UsesClosure(_, _)
UsesClosure(d, S) ==
    LET T == S \cup UNION {Uses(d, x) : x \in S}
    IN  IF T = S THEN S ELSE UsesClosure(d, T)

Cyclic(d) == \E m \in ModuleNames(d) : m \in UsesClosure(d, Uses(d, m))

\* the modules no other module instantiates
Roots(d) ==
    {m \in ModuleNames(d) : \A u \in ModuleNames(d) \ {m} : m \notin Uses(d, u)}

\* the device number of the i-th port and of the j-th cell of a module
PortDev(mod, i) == i - 1
CellDev(mod, j) == Len(mod.ports) + j - 1

\* the registrations of a module: ports <<"port", i, 0>>, connections <<"cell", j, i>>
PortRegs(mod, dir) ==
    {<<"port", i, 0>> : i \in {x \in DOMAIN mod.ports : mod.ports[x].direction = dir}}
CellRegs(mod, dir) ==
    UNION {{<<"cell", j, i>> :
              i \in {x \in DOMAIN mod.cells[j].conns : mod.cells[j].conns[x].direction = dir}} :
           j \in DOMAIN mod.cells}
DriverRegs(mod) == PortRegs(mod, "input") \cup CellRegs(mod, "output")
ListenerRegs(mod) == PortRegs(mod, "output") \cup CellRegs(mod, "input")

RegNet(mod, r) ==
    IF r[1] = "port" THEN mod.ports[r[2]].bits[1] ELSE mod.cells[r[2]].conns[r[3]].bits[1]
RegDev(mod, r) == IF r[1] = "port" THEN PortDev(mod, r[2]) ELSE CellDev(mod, r[2])
RegsOn(mod, regs, k) == {r \in regs : RegNet(mod, r) = k}

\* the module whose net table `nets` holds
LastConverted == IF pc = "failed" /\ mi <= Len(data) THEN data[mi] ELSE data[mi - 1]

-----------------------------------------------------------------------------
(* C1: every net has at most one driver.  A module whose conversion        *)
(* completed registers at most one driver on each net; a run ended by      *)
(* MultipleDrivers was converting a module that registers two on some net; *)
(* and the driver a net table holds is the first one registered on the     *)
(* net, never a later one.                                                 *)
C1_AtMostOneDriver ==
    /\ \A nm \in DOMAIN out :
          LET mod == ModuleNamed(data, nm)
          IN  \A r1, r2 \in DriverRegs(mod) : RegNet(mod, r1) = RegNet(mod, r2) => r1 = r2
    /\ err = "MultipleDrivers" =>
          \E r1, r2 \in DriverRegs(data[mi]) :
              r1 # r2 /\ RegNet(data[mi], r1) = RegNet(data[mi], r2)
    /\ \A k \in DOMAIN nets :
          nets[k].source # NoEndpoint =>
              /\ RegsOn(LastConverted, DriverRegs(LastConverted), k) # {}
              /\ \A r \in RegsOn(LastConverted, DriverRegs(LastConverted), k) :
                    nets[k].source.dev <= RegDev(LastConverted, r)

\* a cell output on a net an input port already drives ended the run
C1_Witness ==
    /\ pc = "failed"
    /\ err = "MultipleDrivers"
    /\ errat.cell # ""
    /\ Len(data[mi].ports) >= 1
    /\ data[mi].ports[1].direction = "input"
    /\ \E r \in CellRegs(data[mi], "output") :
          RegNet(data[mi], r) = data[mi].ports[1].bits[1]
    /\ nets[data[mi].ports[1].bits[1]].source = Endpoint(0, SlotOut(0))

-----------------------------------------------------------------------------
\* the connector a listener registration r of a module must give: from the
\* listener's endpoint to the endpoint of the driver registered on its net
RegSlot(mod, r, dir) ==
    IF r[1] = "port"
    THEN (IF dir = "input" THEN SlotOut(0) ELSE SlotIn(0))
    ELSE LET cell == mod.cells[r[2]]
             pname == cell.conns[r[3]].name
         IN  IF pname \in DOMAIN portmaps[cell.type] THEN portmaps[cell.type][pname]
             ELSE UndefSlot
DriverEnd(mod, k) ==
    LET ds == RegsOn(mod, DriverRegs(mod), k)
    IN  IF ds = {} THEN NoEndpoint
        ELSE LET r == CHOOSE x \in ds : TRUE
             IN  Endpoint(RegDev(mod, r), RegSlot(mod, r, IF r[1] = "port" THEN "input" ELSE "output"))
ExpectedConnector(mod, r) ==
    [from |-> Endpoint(RegDev(mod, r), RegSlot(mod, r, IF r[1] = "port" THEN "output" ELSE "input")),
     to |-> DriverEnd(mod, RegNet(mod, r))]
Occurrences(seq, x) == Cardinality({i \in DOMAIN seq : seq[i] = x})

(* C6: in every completed module conversion the connector list holds, for  *)
(* each listener registration (output port, cell input connection), one    *)
(* connector from that listener to the driver of its net, and nothing      *)
(* else: as many connectors as output ports plus cell input connections.   *)
C6_ConnectorPerListener ==
    \A nm \in DOMAIN out :
        LET mod == ModuleNamed(data, nm)
            regs == ListenerRegs(mod)
            conns == out[nm].connectors
        IN  /\ Len(conns) = Cardinality(regs)
            /\ \A r \in regs :
                  Occurrences(conns, ExpectedConnector(mod, r)) =
                      Cardinality({q \in regs : ExpectedConnector(mod, q) = ExpectedConnector(mod, r)})

\* the AND example: A -> AND.in0, B -> AND.in1, AND.out0 -> Out, 3 connectors
C6_Witness ==
    /\ data = AndExample
    /\ "top" \in DOMAIN out
    /\ Len(out["top"].devices) = 4
    /\ Len(out["top"].connectors) = 3
    /\ Occurrences(out["top"].connectors,
            [from |-> Endpoint(3, SlotIn(0)), to |-> Endpoint(0, SlotOut(0))]) = 1
    /\ Occurrences(out["top"].connectors,
            [from |-> Endpoint(3, SlotIn(1)), to |-> Endpoint(1, SlotOut(0))]) = 1
    /\ Occurrences(out["top"].connectors,
            [from |-> Endpoint(2, SlotIn(0)), to |-> Endpoint(3, SlotOut(0))]) = 1

-----------------------------------------------------------------------------
DistinctBits(mod) ==
    \A i, j \in DOMAIN mod.ports : i # j => mod.ports[i].bits[1] # mod.ports[j].bits[1]
PortsOf(mod, dir) == {i \in DOMAIN mod.ports : mod.ports[i].direction = dir}
\* the 0-based rank of port i by ascending bit index among the ports of its direction
Rank(mod, i) ==
    Cardinality({j \in PortsOf(mod, mod.ports[i].direction) :
                    mod.ports[j].bits[1] < mod.ports[i].bits[1]})

(* C7: once order_ports has returned, every module whose ports have        *)
(* pairwise distinct bit indices maps each input port to in<k> and each    *)
(* output port to out<k>, k the port's rank by ascending bit index within  *)
(* its direction; the inputs fill in0..in(n-1) and the outputs             *)
(* out0..out(m-1), one port each.                                          *)
C7_PortSlotsByRank ==
    \A x \in DOMAIN data :
        (data[x].name \in DOMAIN portmaps /\ DistinctBits(data[x])) =>
            LET mod == data[x]
                pm == portmaps[mod.name]
            IN  /\ \A i \in PortsOf(mod, "input") :
                      pm[mod.ports[i].name] = SlotIn(Rank(mod, i))
                /\ \A i \in PortsOf(mod, "output") :
                      pm[mod.ports[i].name] = SlotOut(Rank(mod, i))
                /\ {pm[mod.ports[i].name] : i \in PortsOf(mod, "input")} =
                      {SlotIn(k) : k \in 0..(Cardinality(PortsOf(mod, "input")) - 1)}
                /\ {pm[mod.ports[i].name] : i \in PortsOf(mod, "output")} =
                      {SlotOut(k) : k \in 0..(Cardinality(PortsOf(mod, "output")) - 1)}

\* inputs at bit indices [3, 1, 2] got in2, in0, in1
C7_Witness ==
    /\ Len(data) = 1
    /\ Len(data[1].ports) = 3
    /\ \A i \in 1..3 : data[1].ports[i].direction = "input"
    /\ <<data[1].ports[1].bits[1], data[1].ports[2].bits[1], data[1].ports[3].bits[1]>> = <<3, 1, 2>>
    /\ "top" \in DOMAIN portmaps
    /\ portmaps["top"]["A"] = SlotIn(2)
    /\ portmaps["top"]["B"] = SlotIn(0)
    /\ portmaps["top"]["Y"] = SlotIn(1)

-----------------------------------------------------------------------------
\* the positions of the document at which module nm is written
WrittenAt(nm) == {i \in DOMAIN doc : doc[i].kind \in {"register", "toplevel"} /\ doc[i].name = nm}

(* C3: for a netlist whose module hierarchy is acyclic, a module is        *)
(* written to the document only after every module it instantiates has     *)
(* been registered, the root diagram is the last thing written, after      *)
(* every registration, and the finished document holds every module that   *)
(* instantiates another.                                                   *)
C3_EmissionRespectsDeps ==
    ~Cyclic(data) =>
        /\ \A u \in ModuleNames(data) : \A j \in WrittenAt(u) :
              \A dep \in Uses(data, u) :
                  \E i \in WrittenAt(dep) : i < j /\ doc[i].kind = "register"
        /\ \A j \in DOMAIN doc :
              doc[j].kind = "toplevel" => (j = Len(doc) /\ pc = "done")
        /\ pc = "done" =>
              /\ doc[Len(doc)].kind = "toplevel"
              /\ \A u \in ModuleNames(data) : Uses(data, u) # {} => WrittenAt(u) # {}

\* X instantiates Y: the order is [Y, X]
C3_Witness ==
    /\ pc = "done"
    /\ ModuleNames(data) = {"X", "Y"}
    /\ Uses(data, "X") = {"Y"}
    /\ Uses(data, "Y") = {}
    /\ doc = <<[kind |-> "header", name |-> "", defined |-> TRUE],
               [kind |-> "register", name |-> "Y", defined |-> TRUE],
               [kind |-> "toplevel", name |-> "X", defined |-> TRUE]>>

(* C8: when the instantiation graph has a cycle, nothing of the document   *)
(* is ever written, the run never gets past the computation of the         *)
(* emission order, and a run that got as far as that computation (every    *)
(* module converted, the layout done) ends there with CyclicDependency.    *)
C8_CycleFailsBeforeOutput ==
    Cyclic(data) =>
        /\ doc = <<>>
        /\ pc \notin {"header", "register", "done"}
        /\ (pc = "failed" /\ mi > Len(data) /\ ~layout_throws(out)) => err = "CyclicDependency"

\* X instantiates Y and Y instantiates X
C8_Witness ==
    /\ ModuleNames(data) = {"X", "Y"}
    /\ Uses(data, "X") = {"Y"}
    /\ Uses(data, "Y") = {"X"}
    /\ pc = "failed"
    /\ err = "CyclicDependency"
    /\ doc = <<>>

\* a module that instantiates itself
C8_SelfWitness ==
    /\ ModuleNames(data) = {"X"}
    /\ Uses(data, "X") = {"X"}
    /\ pc = "failed"
    /\ err = "CyclicDependency"

-----------------------------------------------------------------------------
(* C2: no connector is ever emitted whose driver endpoint is undefined: a  *)
(* module with a listener on a net that nothing drives does not complete   *)
(* its conversion.                                                         *)
C2_NoUndefinedDriver ==
    \A nm \in DOMAIN out : \A i \in DOMAIN out[nm].connectors :
        out[nm].connectors[i].to # NoEndpoint

(* C4: the finished document of a netlist with one root holds one          *)
(* registration for each module other than the root and one top-level      *)
(* diagram, that of the root, which is defined; no module is left out.     *)
C4_EveryModuleEmitted ==
    (pc = "done" /\ Cardinality(Roots(data)) = 1) =>
        /\ Cardinality({i \in DOMAIN doc : doc[i].kind = "toplevel"}) = 1
        /\ doc[Len(doc)].kind = "toplevel"
        /\ doc[Len(doc)].defined
        /\ doc[Len(doc)].name \in Roots(data)
        /\ \A m \in ModuleNames(data) \ Roots(data) :
              Cardinality({i \in WrittenAt(m) : doc[i].kind = "register"}) = 1
        /\ \A m \in ModuleNames(data) : WrittenAt(m) # {}

(* C5: a cell whose type is neither a gate nor a module of the netlist     *)
(* never makes the conversion fail.                                        *)
C5_UnknownCellNeverFails ==
    ~(/\ pc = "failed"
      /\ errat.cell # ""
      /\ errat.type \notin GateTypes \cup ModuleNames(data))

(* C9: no endpoint whose slot is undefined is ever registered as the       *)
(* driver or a listener of a net.                                          *)
C9_NoUndefinedSlot ==
    \A k \in DOMAIN nets :
        /\ nets[k].source.slot # UndefSlot
        /\ \A i \in DOMAIN nets[k].targets : nets[k].targets[i].slot # UndefSlot

(* C10: a netlist with more than one module that no other module           *)
(* instantiates never gets to write its document: the run fails.           *)
C10_AmbiguousRootFails ==
    Cardinality(Roots(data)) > 1 => (doc = <<>> /\ pc \notin {"header", "register", "done"})

====
